---- MODULE Spec2Model ----
(***************************************************************************)
(* A model of taskcluster-pulse's RabbitMQ management client               *)
(* (src/src/rabbitmanager.js), of the broker it talks to as the tests      *)
(* (src/test/rabbitmanager_test.js) exercise it, and of the configuration  *)
(* (src/config.yml) that the namespace and alerting logic is driven by.    *)
(***************************************************************************)
EXTENDS Integers, Sequences, FiniteSets, TLC

\* ------------------------------------------------------------------ values

\* JavaScript's undefined, and "no value yet" for the model's own bookkeeping.
Undefined == "undefined"
None == "none"

\* The number of client calls one behaviour makes.
MaxOps == 3

\* The two call slots: two calls can be in flight at once.
Slots == {1, 2}

\* User names: strings are sequences of characters.  Names are as the tests
\* generate them (slugid: URL-safe, so one path segment of the uri).
NoName == <<>>
Names == {<<"a">>, <<"b">>}
Passwords == {"pw1", "pw2", Undefined}
TagSets == {<<>>, <<"taskcluster-pulse">>}

\* What a caller can hand the constructor for each of the three settings.
CtorValues == {Undefined, "", "guest"}

\* An object literal {} and Object.assign on plain objects: objects are
\* functions from their keys; keys of later sources overwrite earlier ones.
EmptyObject == <<>>
ObjectAssign(target, a, b) == b @@ a @@ target
Has(obj, key) == key \in DOMAIN obj

VARIABLES
  options,    \* this.options of the one client instance; empty before it exists
  ctorError,  \* the message of the constructor's last failed assertion, or None
  ctorArgs,   \* the arguments of the last construction attempt; <<>> before it
  users,      \* the broker's user table: a set of rows
  calls,      \* per slot: the client call occupying it
  ops,        \* the number of calls started so far
  lastOk,     \* per name: the last resolved createUser/deleteUser call for it
  grantee,    \* the namespace whose permission rules the broker holds
  rules,      \* its configure/write/read patterns
  access,     \* the broker's last access decision for the grantee
  store,      \* the namespace record: expires and rotationVersion
  rot,        \* per worker: its rotate(ns) in progress
  secrets,    \* the number of secrets generated so far
  now,        \* the clock, in hours
  lastAlertAt, \* per alert key: when its last alert fired, NoAlert before any
  callers,    \* per caller: its shouldAlert in progress
  fired,      \* per alert key: the times its alerts fired, in order
  alertCalls, \* the number of shouldAlert calls started so far
  ticks       \* the number of times the clock was advanced

clientVars == <<options, ctorError, ctorArgs, users, calls, ops, lastOk>>
permVars == <<grantee, rules, access>>
rotVars == <<store, rot, secrets>>
alertVars == <<now, lastAlertAt, callers, fired, alertCalls, ticks>>
vars == <<clientVars, permVars, rotVars, alertVars>>

\* ------------------------------------------------------------ constructor

\* assert(value, message): JavaScript truthiness of the values at hand.
Truthy(v) == v \notin {Undefined, ""}

\* A constructor that forgot its third assertion.
CtorAssertionNoBaseUrl(username, password, baseUrl) ==
  IF ~Truthy(username) THEN "Must provide a rabbitmq username!"
  ELSE IF ~Truthy(password) THEN "Must provide a rabbitmq password!"
  ELSE None

\* The first assertion of the constructor that fails, or None.
CtorAssertion(username, password, baseUrl) ==
  IF ~Truthy(username) THEN "Must provide a rabbitmq username!"
  ELSE IF ~Truthy(password) THEN "Must provide a rabbitmq password!"
  ELSE IF ~Truthy(baseUrl) THEN "Must provide a rabbitmq baseUrl!"
  ELSE None

\* Options that leave non-2xx answers to the caller (simple: false).
CtorOptionsNotSimple(username, password, baseUrl) ==
  [baseUrl |-> baseUrl,
   auth |-> [username |-> username, password |-> password,
             sendImmediately |-> FALSE],
   headers |-> [ContentType |-> "application/json"],
   transform |-> "transform",
   simple |-> FALSE]

\* The object the constructor stores in this.options.
CtorOptions(username, password, baseUrl) ==
  [baseUrl |-> baseUrl,
   auth |-> [username |-> username, password |-> password,
             sendImmediately |-> FALSE],
   headers |-> [ContentType |-> "application/json"],
   transform |-> "transform",
   simple |-> TRUE]

HasInstance == DOMAIN options # {}

\* new RabbitManager({username, password, baseUrl}): a failed assertion throws
\* and no instance exists; otherwise the instance holds the options.
Construct(username, password, baseUrl) ==
  /\ ~HasInstance
  /\ IF CtorAssertion(username, password, baseUrl) # None
       THEN /\ ctorError' = CtorAssertion(username, password, baseUrl)
            /\ UNCHANGED options
       ELSE /\ options' = CtorOptions(username, password, baseUrl)
            /\ ctorError' = None
  /\ ctorArgs' = <<username, password, baseUrl>>
  /\ UNCHANGED <<users, calls, ops, lastOk, permVars, rotVars, alertVars>>

\* --------------------------------------------------------------- request

\* A request that merges into this.options itself instead of a fresh object.
RequestEffectShared(thisOptions, endpoint, optionsOverride) ==
  LET override == ("uri" :> endpoint) @@ optionsOverride
      merged == ObjectAssign(thisOptions, thisOptions, override)
  IN [sent |-> merged, thisOptions |-> merged]

\* request(endpoint, optionsOverride): sets uri on the override object, merges
\* this.options and the override into a fresh object and hands that to rp.
\* "sent" is the object rp gets, "thisOptions" is this.options afterwards.
RequestEffect(thisOptions, endpoint, optionsOverride) ==
  LET override == ("uri" :> endpoint) @@ optionsOverride
  IN [sent |-> ObjectAssign(EmptyObject, thisOptions, override),
      thisOptions |-> thisOptions]

\* JSON.stringify of an object: properties whose value is undefined are left
\* out; JSON.parse gives the object of the text back.
JSONStringify(obj) ==
  <<"json", [k \in {f \in DOMAIN obj : obj[f] # Undefined} |-> obj[k]]>>
JSONParse(text) == text[2]

\* A payload that loses the tags.
CreateUserPayloadNoTags(password, tags) == [password |-> password, tags |-> <<>>]

\* A deleteUser that forgot its method: the request goes out as a GET.
DeleteUserOverrideNoMethod == EmptyObject

\* The payload createUser builds and the override it passes to request.
CreateUserPayload(password, tags) == [password |-> password, tags |-> tags]
CreateUserOverride(password, tags) ==
  [body |-> JSONStringify(CreateUserPayload(password, tags)), method |-> "PUT"]
DeleteUserOverride == [method |-> "delete"]

\* The endpoints: `users/${name}` is the path users/<name>.
UsersEndpoint(name) == <<"users", name>>
OverviewEndpoint == <<"overview">>
ClusterNameEndpoint == <<"cluster-name">>

\* A call slot. status/body: the broker's answer (status 0: none arrived);
\* error/statusCode: the rejection (statusCode 0: the error carries none);
\* value: the resolution. existed/existsAfter/unchanged record what the
\* broker's user table looked like when it handled the request.
EmptyBody == <<>>
IdleCall ==
  [op |-> None, name |-> NoName, password |-> None, tags |-> <<>>,
   state |-> "idle", req |-> EmptyObject, requests |-> 0,
   status |-> 0, body |-> EmptyBody, error |-> None, statusCode |-> 0,
   value |-> Undefined,
   existed |-> FALSE, existsAfter |-> FALSE, unchanged |-> TRUE]

Free(c) == calls[c].state \in {"idle", "resolved", "rejected"}
InFlight(c) == calls[c].state \in {"sent", "answered"}

\* A client method up to its await: one request() call, one rp() call.
Issue(c, op, name, password, tags, endpoint, optionsOverride) ==
  LET eff == RequestEffect(options, endpoint, optionsOverride)
  IN /\ Free(c)
     /\ ops < MaxOps
     /\ ops' = ops + 1
     /\ options' = eff.thisOptions
     /\ calls' = [calls EXCEPT ![c] =
          [IdleCall EXCEPT !.op = op, !.name = name, !.password = password,
                           !.tags = tags, !.state = "sent",
                           !.req = eff.sent, !.requests = 1]]
     /\ UNCHANGED <<ctorError, ctorArgs, users, lastOk, permVars, rotVars, alertVars>>

\* The methods are called on an instance.
Overview(c) ==
  /\ HasInstance
  /\ Issue(c, "overview", NoName, None, <<>>, OverviewEndpoint, EmptyObject)
ClusterName(c) ==
  /\ HasInstance
  /\ Issue(c, "clusterName", NoName, None, <<>>, ClusterNameEndpoint,
           EmptyObject)
CreateUser(c, name, password, tags) ==
  /\ HasInstance
  /\ Issue(c, "createUser", name, password, tags, UsersEndpoint(name),
           CreateUserOverride(password, tags))
DeleteUser(c, name) ==
  /\ HasInstance
  /\ Issue(c, "deleteUser", name, None, <<>>, UsersEndpoint(name),
           DeleteUserOverride)

\* ---------------------------------------------------------------- broker

\* The method on the wire: GET when the options name none, upper-cased
\* otherwise ('delete' is sent as DELETE).
ToUpperCase(m) ==
  CASE m = "delete" -> "DELETE"
    [] m = "put" -> "PUT"
    [] m = "get" -> "GET"
    [] OTHER -> m
WireMethod(req) == IF Has(req, "method") THEN ToUpperCase(req.method) ELSE "GET"

Rows(table, name) == {r \in table : r.name = name}
Exists(table, name) == Rows(table, name) # {}

OverviewDocument ==
  [rabbitmq_version |-> "3", management_version |-> "3", cluster_name |-> "rabbit"]
ClusterNameDocument == [name |-> "rabbit"]
NotFoundDocument == [error |-> "Object Not Found", reason |-> "Not Found"]

\* GET overview and GET cluster-name answer 200 with a JSON document.
BrokerGet(table, path) ==
  [status |-> 200,
   body |-> JSONStringify(IF path = OverviewEndpoint THEN OverviewDocument
                          ELSE ClusterNameDocument),
   users |-> table]

\* PUT users/<name>: create the user or overwrite its password and tags in
\* place: 201 when created, 204 when overwritten, an empty body.  A body
\* without a password is a bad request.
BrokerPutUser(table, name, req) ==
  LET payload == IF Has(req, "body") THEN JSONParse(req.body) ELSE EmptyObject
  IN IF ~(Has(payload, "password") /\ Has(payload, "tags"))
       THEN [status |-> 400, body |-> JSONStringify([error |-> "bad_request"]),
             users |-> table]
       ELSE [status |-> IF Exists(table, name) THEN 204 ELSE 201,
             body |-> EmptyBody,
             users |-> (table \ Rows(table, name)) \cup
                       {[name |-> name, password |-> payload.password,
                         tags |-> payload.tags]}]

\* GET users/<name>: 200 with the user's document, or 404.
BrokerGetUser(table, name) ==
  IF Exists(table, name)
    THEN [status |-> 200,
          body |-> JSONStringify(CHOOSE r \in Rows(table, name) : TRUE),
          users |-> table]
    ELSE [status |-> 404, body |-> JSONStringify(NotFoundDocument),
          users |-> table]

\* DELETE users/<name>: 204 and the user is gone, or 404 when there is none.
BrokerDeleteUser(table, name) ==
  IF Exists(table, name)
    THEN [status |-> 204, body |-> EmptyBody, users |-> table \ Rows(table, name)]
    ELSE [status |-> 404, body |-> JSONStringify(NotFoundDocument),
          users |-> table]

\* The management API's answer to the request rp sends.
BrokerRespond(table, req) ==
  LET m == WireMethod(req)
      path == req.uri
  IN CASE m = "GET" /\ path \in {OverviewEndpoint, ClusterNameEndpoint} ->
            BrokerGet(table, path)
       [] m = "GET" /\ Len(path) = 2 /\ path[1] = "users" ->
            BrokerGetUser(table, path[2])
       [] m = "PUT" /\ Len(path) = 2 /\ path[1] = "users" ->
            BrokerPutUser(table, path[2], req)
       [] m = "DELETE" /\ Len(path) = 2 /\ path[1] = "users" ->
            BrokerDeleteUser(table, path[2])
       [] OTHER ->
            [status |-> 405, body |-> JSONStringify([error |-> "not_allowed"]),
             users |-> table]

\* The broker handles an in-flight request and answers it.
BrokerHandle(c) ==
  /\ calls[c].state = "sent"
  /\ LET resp == BrokerRespond(users, calls[c].req)
         n == calls[c].name
     IN /\ users' = resp.users
        /\ calls' = [calls EXCEPT ![c] =
             [@ EXCEPT !.state = "answered", !.status = resp.status,
                       !.body = resp.body,
                       !.existed = Exists(users, n),
                       !.existsAfter = Exists(resp.users, n),
                       !.unchanged = (resp.users = users)]]
  /\ UNCHANGED <<options, ctorError, ctorArgs, ops, lastOk, permVars, rotVars, alertVars>>

\* ------------------------------------------------------------ settlement

\* options.transform: JSON.parse of a non-empty body, '' for an empty one.
Transform(body) == IF body # EmptyBody THEN JSONParse(body) ELSE ""

\* What the awaiting method returns: overview and clusterName return the
\* response, createUser and deleteUser drop it.
MethodReturn(op, response) ==
  IF op \in {"overview", "clusterName"} THEN response ELSE Undefined

\* A retrying client: a non-2xx answer sends the request once more.
AfterResponseRetry(call) ==
  IF call.status \in 200..299
    THEN [call EXCEPT !.state = "resolved",
                      !.value = MethodReturn(call.op, Transform(call.body))]
    ELSE [call EXCEPT !.state = "sent", !.requests = @ + 1]

\* rp settles the promise: with simple set, a status outside 2xx rejects with
\* a StatusCodeError carrying the status; otherwise it resolves with the
\* transformed body, which the async method returns or drops.
AfterResponse(call) ==
  IF Has(call.req, "simple") /\ call.req.simple /\ call.status \notin 200..299
    THEN [call EXCEPT !.state = "rejected", !.error = "StatusCodeError",
                      !.statusCode = call.status]
    ELSE [call EXCEPT !.state = "resolved",
                      !.value = MethodReturn(call.op, Transform(call.body))]

\* The outcome a finished call leaves for its name.
Outcome(call, previous) ==
  IF call.op \in {"createUser", "deleteUser"} /\ call.state = "resolved"
    THEN [op |-> call.op, password |-> call.password, tags |-> call.tags]
    ELSE previous

NoOutcome == [op |-> None, password |-> None, tags |-> <<>>]
UnknownOutcome == [op |-> "unknown", password |-> None, tags |-> <<>>]

Settle(c) ==
  /\ calls[c].state = "answered"
  /\ LET done == AfterResponse(calls[c])
     IN /\ calls' = [calls EXCEPT ![c] = done]
        /\ lastOk' = IF done.name \in Names
                       THEN [lastOk EXCEPT ![done.name] = Outcome(done, @)]
                       ELSE lastOk
  /\ UNCHANGED <<options, ctorError, ctorArgs, users, ops, permVars, rotVars, alertVars>>

\* The connection fails before the request reaches the broker or before its
\* answer reaches the client: rp rejects with a RequestError, which has no
\* statusCode.  A request the broker had handled may have taken effect.
NetworkFail(c) ==
  /\ InFlight(c)
  /\ calls' = [calls EXCEPT ![c] =
       [@ EXCEPT !.state = "rejected", !.error = "RequestError",
                 !.status = 0, !.body = EmptyBody]]
  /\ lastOk' = IF calls[c].state = "answered" /\ calls[c].name \in Names
                 THEN [lastOk EXCEPT ![calls[c].name] = UnknownOutcome]
                 ELSE lastOk
  /\ UNCHANGED <<options, ctorError, ctorArgs, users, ops, permVars, rotVars, alertVars>>

\* ----------------------------------------------------- permission rules

\* The longest namespace name the permission checks draw.
MaxNameLen == 2

\* Strings are sequences of characters.  Namespace names are made of
\* letters (no "/" and no regex metacharacter).
NameChars == {"a", "b"}
RECURSIVE StringsUpTo(_)
StringsUpTo(n) ==
  IF n = 0 THEN {<<>>}
  ELSE LET shorter == StringsUpTo(n - 1)
       IN shorter \cup {Append(w, ch) : w \in shorter, ch \in NameChars}
Namespaces == StringsUpTo(MaxNameLen) \ {<<>>}

\* monitor.queuePrefix and monitor.exchangePrefix.
QueuePrefix == <<"q", "u", "e", "u", "e", "/">>
ExchangePrefix == <<"e", "x", "c", "h", "a", "n", "g", "e", "/">>

\* The templates of the configuration.  "^", "(", "|", ")" and ".*" are the
\* regex operators, "{{namespace}}" the placeholder, the rest literal
\* characters.
OwnQueues == QueuePrefix \o <<"{{namespace}}", "/", ".*">>
OwnExchanges == ExchangePrefix \o <<"{{namespace}}", "/", ".*">>
AllExchanges == ExchangePrefix \o <<".*">>
Alternation(a, b) == <<"^", "(">> \o a \o <<"|">> \o b \o <<")">>

\* A configure template that lost the "/" closing the namespace.
UserConfigPermissionOpen ==
  Alternation(QueuePrefix \o <<"{{namespace}}", ".*">>, OwnExchanges)

UserConfigPermission == Alternation(OwnQueues, OwnExchanges)
UserWritePermission == Alternation(OwnQueues, OwnExchanges)
UserReadPermission == Alternation(OwnQueues, AllExchanges)

\* {{namespace}} replaced by the namespace's name.
RECURSIVE Substitute(_, _)
Substitute(template, name) ==
  IF template = <<>> THEN <<>>
  ELSE (IF Head(template) = "{{namespace}}" THEN name ELSE <<Head(template)>>)
       \o Substitute(Tail(template), name)

PermissionRules(name) ==
  [configure |-> Substitute(UserConfigPermission, name),
   write |-> Substitute(UserWritePermission, name),
   read |-> Substitute(UserReadPermission, name)]

\* The branches of ^(b1|b2|...): the pattern without "^(" and ")", cut at "|".
RECURSIVE SplitBranches(_, _)
SplitBranches(inner, current) ==
  IF inner = <<>> THEN {current}
  ELSE IF Head(inner) = "|"
         THEN {current} \cup SplitBranches(Tail(inner), <<>>)
         ELSE SplitBranches(Tail(inner), Append(current, Head(inner)))
Branches(pattern) == SplitBranches(SubSeq(pattern, 3, Len(pattern) - 1), <<>>)

\* A branch matches at the start of the subject: a literal matches itself,
\* ".*" any run of characters; what follows the match is free (no "$").
RECURSIVE BranchMatches(_, _)
BranchMatches(branch, subject) ==
  IF branch = <<>> THEN TRUE
  ELSE IF Head(branch) = ".*"
         THEN \E k \in 1..(Len(subject) + 1) :
                BranchMatches(Tail(branch), SubSeq(subject, k, Len(subject)))
         ELSE /\ subject # <<>>
              /\ Head(subject) = Head(branch)
              /\ BranchMatches(Tail(branch), Tail(subject))

\* The broker grants an operation on a resource when the rule matches its name.
Matches(pattern, subject) ==
  \E branch \in Branches(pattern) : BranchMatches(branch, subject)

\* The names of queues and exchanges: under a namespace's prefix, or not.
QueueOf(name) == QueuePrefix \o name \o <<"/">>
ExchangeOf(name) == ExchangePrefix \o name \o <<"/">>
Suffixes == {<<>>, <<"a">>, <<"b", "/", "a">>}
Resources ==
  {QueueOf(n) \o x : n \in Namespaces, x \in Suffixes}
    \cup {ExchangeOf(n) \o x : n \in Namespaces, x \in Suffixes}
    \cup {QueuePrefix, ExchangePrefix, <<"a">>}
IsPrefix(p, w) == Len(p) <= Len(w) /\ SubSeq(w, 1, Len(p)) = p

NoAccess == [permission |-> None, resource |-> <<>>, granted |-> FALSE]
NoRules == [configure |-> <<>>, write |-> <<>>, read |-> <<>>]

\* A namespace's rules are derived from its name and set on the broker.
SetPermissions(name) ==
  /\ grantee' = name
  /\ rules' = PermissionRules(name)
  /\ access' = NoAccess
  /\ UNCHANGED <<clientVars, rotVars, alertVars>>

\* The namespace's user asks for an operation on a resource.
Access(permission, resource) ==
  /\ grantee # NoName
  /\ access' = [permission |-> permission, resource |-> resource,
                granted |-> Matches(rules[permission], resource)]
  /\ UNCHANGED <<grantee, rules, clientVars, rotVars, alertVars>>

\* --------------------------------------------------------------- rotate

\* The number of rotate(ns) calls one behaviour starts.
MaxRotations == 3

Workers == {1, 2}
\* The namespace the workers rotate, and the tags of its user.
RotatedNamespace == <<"a">>
UserTags == <<"taskcluster-pulse">>
\* namespaceRotationInterval, in hours.
NamespaceRotationInterval == 1

\* The n-th secret generated: every one is new.
Secret(n) == <<"secret", n>>
IdleRotation == [pc |-> "idle", token |-> 0, secret |-> <<>>, writes |-> 0]
RotationOver(w) == rot[w].pc \in {"idle", "rotated", "conflict", "failed"}

\* rotate(ns) reads the namespace record with its version token and
\* generates a fresh secret.
ReadRecord(w) ==
  /\ RotationOver(w)
  /\ secrets < MaxRotations
  /\ secrets' = secrets + 1
  /\ rot' = [rot EXCEPT ![w] = [pc |-> "upsertUser",
                                 token |-> store.rotationVersion,
                                 secret |-> Secret(secrets + 1),
                                 writes |-> 0]]
  /\ UNCHANGED <<store, clientVars, permVars, alertVars>>

\* It upserts the broker user with the secret and the fixed tags: createUser
\* through the client, answered by the broker.
UpsertUser(w) ==
  /\ rot[w].pc = "upsertUser"
  /\ LET req == RequestEffect(options, UsersEndpoint(RotatedNamespace),
                              CreateUserOverride(rot[w].secret, UserTags)).sent
         resp == BrokerRespond(users, req)
     IN /\ users' = resp.users
        /\ rot' = [rot EXCEPT ![w].pc =
                     IF resp.status \in 200..299 THEN "upsertPermissions"
                     ELSE "failed"]
  /\ UNCHANGED <<store, secrets, options, ctorError, ctorArgs, calls, ops,
                 lastOk, permVars, alertVars>>

\* It upserts the permission rules derived from the namespace's name.
UpsertPermissions(w) ==
  /\ rot[w].pc = "upsertPermissions"
  /\ grantee' = RotatedNamespace
  /\ rules' = PermissionRules(RotatedNamespace)
  /\ rot' = [rot EXCEPT ![w].pc = "update"]
  /\ UNCHANGED <<access, store, secrets, clientVars, alertVars>>

\* A store that writes without comparing the version token.
ConditionalUpdateBlind(record, token) ==
  [written |-> TRUE,
   record |-> [expires |-> record.expires + NamespaceRotationInterval,
               rotationVersion |-> record.rotationVersion + 1]]

\* The store's conditional update: the record is written only when its
\* version is still the token that was read.
ConditionalUpdate(record, token) ==
  IF record.rotationVersion = token
    THEN [written |-> TRUE,
          record |-> [expires |-> record.expires + NamespaceRotationInterval,
                      rotationVersion |-> record.rotationVersion + 1]]
    ELSE [written |-> FALSE, record |-> record]

\* It updates the record under its token: a stale token is a conflict, and
\* the rotation ends without touching the store or the broker.
UpdateRecord(w) ==
  /\ rot[w].pc = "update"
  /\ LET cas == ConditionalUpdate(store, rot[w].token)
     IN /\ store' = cas.record
        /\ rot' = [rot EXCEPT ![w].pc = IF cas.written THEN "rotated"
                                        ELSE "conflict",
                              ![w].writes = IF cas.written THEN @ + 1 ELSE @]
  /\ UNCHANGED <<secrets, clientVars, permVars, alertVars>>

\* The broker is unreachable or rejects a request: the rotation fails and
\* the record is not advanced.
BrokerUnreachable(w) ==
  /\ rot[w].pc \in {"upsertUser", "upsertPermissions"}
  /\ rot' = [rot EXCEPT ![w].pc = "failed"]
  /\ UNCHANGED <<store, secrets, clientVars, permVars, alertVars>>

\* -------------------------------------------------------------- alerter

\* The number of times the clock advances, and of shouldAlert calls.
MaxTicks == 3
MaxAlertCalls == 3

\* Between two events an hour passes, or a day.
TimeSteps == {1, 24}

\* rabbitQueueExpirationDelay, in hours.
RabbitQueueExpirationDelay == 24

AlertKeys == {"k1", "k2"}
Callers == {1, 2}
Classifications == {"healthy", "alert", "delete"}
NoAlert == -1

IdleCaller ==
  [pc |-> "idle", key |-> None, classification |-> None, seen |-> NoAlert,
   at |-> 0, result |-> FALSE]

Tick(hours) ==
  /\ ticks < MaxTicks
  /\ ticks' = ticks + 1
  /\ now' = now + hours
  /\ UNCHANGED <<lastAlertAt, callers, fired, alertCalls, clientVars,
                 permVars, rotVars>>

\* shouldAlert(key, classification) reads the key's alert record.
ReadAlertRecord(c, key, classification) ==
  /\ callers[c].pc \in {"idle", "done"}
  /\ alertCalls < MaxAlertCalls
  /\ alertCalls' = alertCalls + 1
  /\ callers' = [callers EXCEPT ![c] =
       [pc |-> "decide", key |-> key, classification |-> classification,
        seen |-> lastAlertAt[key], at |-> 0, result |-> FALSE]]
  /\ UNCHANGED <<now, ticks, lastAlertAt, fired, clientVars, permVars,
                 rotVars>>

\* The decision on a record that was read: an alert is due when the
\* classification is alert and no alert fired within the window.
AlertDue(classification, seen, time) ==
  /\ classification = "alert"
  /\ seen = NoAlert \/ time - seen > RabbitQueueExpirationDelay

\* A persist that does not compare the record with what was read.
PersistAlertBlind(current, seen, time) == [written |-> TRUE, record |-> time]

\* lastAlertAt(key) = now is persisted only when the record is still the one
\* the decision was made on.
PersistAlert(current, seen, time) ==
  IF current = seen THEN [written |-> TRUE, record |-> time]
  ELSE [written |-> FALSE, record |-> current]

\* It decides and, when an alert is due, persists and returns true in one
\* step; a caller that lost the conditional write returns false.
Decide(c) ==
  /\ callers[c].pc = "decide"
  /\ LET k == callers[c].key
         due == AlertDue(callers[c].classification, callers[c].seen, now)
         put == PersistAlert(lastAlertAt[k], callers[c].seen, now)
         fire == due /\ put.written
     IN /\ lastAlertAt' = IF fire THEN [lastAlertAt EXCEPT ![k] = put.record]
                          ELSE lastAlertAt
        /\ fired' = IF fire THEN [fired EXCEPT ![k] = Append(@, now)] ELSE fired
        /\ callers' = [callers EXCEPT ![c].pc = "done", ![c].at = now,
                                      ![c].result = fire]
  /\ UNCHANGED <<now, ticks, alertCalls, clientVars, permVars, rotVars>>

\* ------------------------------------------------------- specifications

NotConstructed ==
  /\ options = EmptyObject
  /\ ctorError = None
  /\ ctorArgs = <<>>

InitBroker ==
  /\ users = {}
  /\ calls = [c \in Slots |-> IdleCall]
  /\ ops = 0
  /\ lastOk = [n \in Names |-> NoOutcome]

InitPermissions ==
  /\ grantee = NoName
  /\ rules = NoRules
  /\ access = NoAccess

InitRotation ==
  /\ store = [expires |-> 0, rotationVersion |-> 0]
  /\ rot = [w \in Workers |-> IdleRotation]
  /\ secrets = 0

InitAlerter ==
  /\ now = 0
  /\ lastAlertAt = [k \in AlertKeys |-> NoAlert]
  /\ callers = [c \in Callers |-> IdleCaller]
  /\ fired = [k \in AlertKeys |-> <<>>]
  /\ alertCalls = 0
  /\ ticks = 0

Init ==
  /\ NotConstructed
  /\ InitBroker
  /\ InitPermissions
  /\ InitRotation
  /\ InitAlerter

\* A caller that awaits every call before it makes the next one.
Next ==
  \/ \E u \in CtorValues, p \in CtorValues, b \in CtorValues : Construct(u, p, b)
  \/ Overview(1)
  \/ ClusterName(1)
  \/ \E n \in Names, p \in Passwords, t \in TagSets : CreateUser(1, n, p, t)
  \/ \E n \in Names : DeleteUser(1, n)
  \/ BrokerHandle(1)
  \/ Settle(1)
  \/ NetworkFail(1)

Spec == Init /\ [][Next]_vars

\* Callers that do not wait for one another: two calls can overlap.
NextConcurrent ==
  \/ \E u \in CtorValues, p \in CtorValues, b \in CtorValues : Construct(u, p, b)
  \/ \E c \in Slots : Overview(c)
  \/ \E c \in Slots : ClusterName(c)
  \/ \E c \in Slots, n \in Names, p \in Passwords, t \in TagSets :
        CreateUser(c, n, p, t)
  \/ \E c \in Slots, n \in Names : DeleteUser(c, n)
  \/ \E c \in Slots : BrokerHandle(c)
  \/ \E c \in Slots : Settle(c)
  \/ \E c \in Slots : NetworkFail(c)

SpecConcurrent == Init /\ [][NextConcurrent]_vars

\* The broker's permission checks for one namespace after another.
NextPermissions ==
  \/ \E n \in Namespaces : SetPermissions(n)
  \/ \E p \in {"configure", "write", "read"}, r \in Resources : Access(p, r)

SpecPermissions == Init /\ [][NextPermissions]_vars

\* Two workers rotating one namespace through a constructed client.
InitRotate ==
  /\ options = CtorOptions("guest", "guest", "guest")
  /\ ctorError = None
  /\ ctorArgs = <<"guest", "guest", "guest">>
  /\ InitBroker
  /\ InitPermissions
  /\ InitRotation
  /\ InitAlerter

NextRotate ==
  \/ \E w \in Workers : ReadRecord(w)
  \/ \E w \in Workers : UpsertUser(w)
  \/ \E w \in Workers : UpsertPermissions(w)
  \/ \E w \in Workers : UpdateRecord(w)
  \/ \E w \in Workers : BrokerUnreachable(w)

SpecRotate == InitRotate /\ [][NextRotate]_vars

\* Two monitor passes asking the alerter while the clock runs.
NextAlerter ==
  \/ \E h \in TimeSteps : Tick(h)
  \/ \E c \in Callers, k \in AlertKeys, x \in Classifications :
        ReadAlertRecord(c, k, x)
  \/ \E c \in Callers : Decide(c)

SpecAlerter == Init /\ [][NextAlerter]_vars

\* ------------------------------------------------------------------ claims

Finished(c) == calls[c].state \in {"resolved", "rejected"}
\* A finished call the broker's answer reached (no connection failure).
Answered(c) == Finished(c) /\ calls[c].status # 0
DeleteCalls == {c \in Slots : calls[c].op = "deleteUser" /\ Answered(c)}

\* C1 as the claim states it: a deleteUser for a user the broker does not
\* have completes successfully.
C1_DeleteAbsentSucceeds ==
  \A c \in DeleteCalls : ~calls[c].existed => calls[c].state = "resolved"

\* C1, amended: a deleteUser for a user the broker does not have leaves the
\* user table as it was, the user still absent, and is reported to the caller
\* as a rejection whose statusCode is 404 (it is for the caller to count that
\* as success); so the second of two deleteUser(n) in a row rejects with 404.
C1_DeleteAbsentRejects404 ==
  \A c \in DeleteCalls :
    ~calls[c].existed =>
      /\ calls[c].state = "rejected"
      /\ calls[c].statusCode = 404
      /\ calls[c].unchanged
      /\ ~calls[c].existsAfter

\* The second deleteUser(n) in a row has been rejected with 404.
C1_Witness ==
  \E c \in DeleteCalls :
    /\ lastOk[calls[c].name].op = "deleteUser"
    /\ calls[c].state = "rejected"
    /\ calls[c].statusCode = 404

\* C2: a deleteUser the broker answered resolves exactly when the user existed
\* when the broker handled it, and then the user is gone; when the user did
\* not exist it rejects with a StatusCodeError of 404 and the user table is
\* unchanged.  So a deleteUser(n) after a successful createUser(n) is never
\* rejected by an answer, and one with no earlier createUser(n) rejects with 404.
C2_DeleteUserContract ==
  \A c \in DeleteCalls :
    /\ (calls[c].state = "resolved") <=> calls[c].existed
    /\ calls[c].existed => ~calls[c].existsAfter
    /\ ~calls[c].existed =>
         /\ calls[c].error = "StatusCodeError"
         /\ calls[c].statusCode = 404
         /\ calls[c].unchanged
    /\ calls[c].state = "rejected" => lastOk[calls[c].name].op # "createUser"
    /\ lastOk[calls[c].name].op = None =>
         calls[c].state = "rejected" /\ calls[c].statusCode = 404

\* A deleteUser of an existing user has resolved and the user is gone.
C2_Witness ==
  \E c \in DeleteCalls :
    /\ calls[c].state = "resolved"
    /\ calls[c].existed
    /\ ~Exists(users, calls[c].name)

\* C3: the broker never holds two users of one name, and once every call has
\* been answered and settled, a name whose last successful call was
\* createUser(n, p, t) is a user with exactly password p and tags t (a name
\* whose last successful call was deleteUser is no user).
C3_CreateOverwrites ==
  /\ \A n \in Names : Cardinality(Rows(users, n)) <= 1
  /\ (\A c \in Slots : calls[c].state # "answered") =>
       \A n \in Names :
         /\ lastOk[n].op = "createUser" =>
              Rows(users, n) = {[name |-> n, password |-> lastOk[n].password,
                                 tags |-> lastOk[n].tags]}
         /\ lastOk[n].op = "deleteUser" => ~Exists(users, n)

\* A createUser for a name that was already a user has resolved (the broker
\* answered 204, overwritten) and the user carries that call's secret.
C3_Witness ==
  \E c \in Slots :
    /\ calls[c].op = "createUser"
    /\ calls[c].state = "resolved"
    /\ calls[c].existed
    /\ calls[c].status = 204
    /\ Rows(users, calls[c].name) =
         {[name |-> calls[c].name, password |-> calls[c].password,
           tags |-> calls[c].tags]}

\* C5 as the claim states it: every request handed to rp carries a timeout.
C5_EveryCallHasTimeout ==
  \A c \in Slots : InFlight(c) => Has(calls[c].req, "timeout")

C9_MissingCredentialFatal ==
  /\ Len(ctorArgs) = 3 =>
       /\ HasInstance <=> \A i \in 1..3 : Truthy(ctorArgs[i])
       /\ ~HasInstance <=> ctorError # None
  /\ ~HasInstance => ops = 0 /\ \A c \in Slots : calls[c].state = "idle"

\* A construction without a baseUrl has failed on its assertion.
C9_Witness ==
  /\ Len(ctorArgs) = 3
  /\ Truthy(ctorArgs[1]) /\ Truthy(ctorArgs[2]) /\ ~Truthy(ctorArgs[3])
  /\ ctorError = "Must provide a rabbitmq baseUrl!"
  /\ ~HasInstance

\* C10: this.options stays what the constructor set, whatever calls run or
\* overlap; the options of a call hold, beyond the constructor's, only that
\* call's own uri, method and body; overview and clusterName go out as a GET
\* without a body.
C10_OptionsFrame ==
  /\ HasInstance => options = CtorOptions(ctorArgs[1], ctorArgs[2], ctorArgs[3])
  /\ \A c \in Slots :
       calls[c].state # "idle" =>
         LET req == calls[c].req
         IN /\ \A k \in DOMAIN options : Has(req, k) /\ req[k] = options[k]
            /\ calls[c].op = "overview" =>
                 /\ DOMAIN req = DOMAIN options \cup {"uri"}
                 /\ req.uri = OverviewEndpoint
                 /\ WireMethod(req) = "GET"
            /\ calls[c].op = "clusterName" =>
                 /\ DOMAIN req = DOMAIN options \cup {"uri"}
                 /\ req.uri = ClusterNameEndpoint
                 /\ WireMethod(req) = "GET"
            /\ calls[c].op = "createUser" =>
                 /\ DOMAIN req = DOMAIN options \cup {"uri", "method", "body"}
                 /\ req.uri = UsersEndpoint(calls[c].name)
                 /\ WireMethod(req) = "PUT"
                 /\ req.body = JSONStringify([password |-> calls[c].password,
                                              tags |-> calls[c].tags])
            /\ calls[c].op = "deleteUser" =>
                 /\ DOMAIN req = DOMAIN options \cup {"uri", "method"}
                 /\ req.uri = UsersEndpoint(calls[c].name)
                 /\ WireMethod(req) = "DELETE"

\* An overview was issued while a createUser was in flight, after a deleteUser
\* had finished in its slot, and it was answered 200.
C10_Witness ==
  \E c \in Slots, d \in Slots :
    /\ calls[c].op = "createUser" /\ InFlight(c)
    /\ calls[d].op = "overview" /\ calls[d].state = "resolved"
    /\ calls[d].status = 200

OthersQueue(r) == \E n \in Namespaces : n # grantee /\ IsPrefix(QueueOf(n), r)
OthersExchange(r) ==
  \E n \in Namespaces : n # grantee /\ IsPrefix(ExchangeOf(n), r)

\* C4 as the claim states it: no rule of a namespace grants an operation on a
\* queue or exchange under another namespace's prefix.
C4_NoCrossNamespaceAccess ==
  access.granted =>
    ~OthersQueue(access.resource) /\ ~OthersExchange(access.resource)

\* C4, amended: the configure and write rules of a namespace never grant an
\* operation on a queue or exchange under another namespace's prefix, and its
\* read rule never grants one on another namespace's queue; the read rule
\* grants reading every exchange, those under other prefixes included.
C4_OnlyExchangeReadCrosses ==
  /\ access.granted /\ access.permission \in {"configure", "write"} =>
       ~OthersQueue(access.resource) /\ ~OthersExchange(access.resource)
  /\ access.granted /\ access.permission = "read" =>
       ~OthersQueue(access.resource)
  /\ access.permission = "read" /\ IsPrefix(ExchangePrefix, access.resource) =>
       access.granted

\* Namespace a was refused configure on a queue of namespace ab, whose name
\* its own name begins.
C4_Witness ==
  /\ grantee = <<"a">>
  /\ access.permission = "configure"
  /\ access.resource = QueueOf(<<"a", "b">>) \o <<"a">>
  /\ ~access.granted

\* C7: of two rotations that read the same version token and both reached the
\* conditional update, exactly one advanced the record and the other met a
\* conflict; a rotation that met a conflict or failed wrote nothing to the
\* store, and one that met a conflict left its user on the broker.  The
\* record's version counts the rotations that advanced it, and expires moves
\* with it.
C7_ExactlyOneRotationAdvances ==
  /\ \A v \in Workers, w \in Workers :
       /\ v # w
       /\ rot[v].token = rot[w].token
       /\ rot[v].pc \in {"rotated", "conflict"}
       /\ rot[w].pc \in {"rotated", "conflict"}
       => /\ Cardinality({x \in {v, w} : rot[x].pc = "rotated"}) = 1
          /\ rot[v].writes + rot[w].writes = 1
          /\ store.rotationVersion = rot[v].token + 1
  /\ \A w \in Workers :
       /\ rot[w].pc \in {"conflict", "failed"} => rot[w].writes = 0
       /\ rot[w].pc = "rotated" =>
            rot[w].writes = 1 /\ store.rotationVersion > rot[w].token
       /\ rot[w].pc = "conflict" =>
            /\ store.rotationVersion > rot[w].token
            /\ Cardinality(Rows(users, RotatedNamespace)) = 1
  /\ store.expires = store.rotationVersion * NamespaceRotationInterval

\* Two rotations read the same token; one advanced the record, the other met
\* the conflict, and the user on the broker carries the loser's secret.
C7_Witness ==
  \E v \in Workers, w \in Workers :
    /\ rot[v].token = rot[w].token
    /\ rot[v].pc = "rotated"
    /\ rot[w].pc = "conflict"
    /\ \E r \in users : r.name = RotatedNamespace /\ r.password = rot[w].secret

\* C8: the alerts of one key are more than rabbitQueueExpirationDelay apart;
\* shouldAlert has returned true only for the classification alert and only
\* with no alert on record or one older than the window, and the record then
\* holds an alert at least as late as that call's; of two callers that
\* decided on the same record of one key, at most one was answered true.
C8_AlertSuppression ==
  /\ \A k \in AlertKeys : \A i \in 1..Len(fired[k]), j \in 1..Len(fired[k]) :
       i < j => fired[k][j] - fired[k][i] > RabbitQueueExpirationDelay
  /\ \A c \in Callers :
       callers[c].pc = "done" /\ callers[c].result =>
         /\ callers[c].classification = "alert"
         /\ \/ callers[c].seen = NoAlert
            \/ callers[c].at - callers[c].seen > RabbitQueueExpirationDelay
         /\ lastAlertAt[callers[c].key] >= callers[c].at
  /\ \A c \in Callers, d \in Callers :
       /\ c # d
       /\ callers[c].pc = "done" /\ callers[d].pc = "done"
       /\ callers[c].key = callers[d].key
       /\ callers[c].seen = callers[d].seen
       => ~(callers[c].result /\ callers[d].result)

\* Two callers read the same record of one key and both asked for an alert
\* within the hour: one was answered true, the other false.
C8_Witness ==
  \E c \in Callers, d \in Callers :
    /\ callers[c].pc = "done" /\ callers[d].pc = "done"
    /\ callers[c].key = callers[d].key
    /\ callers[c].classification = "alert"
    /\ callers[d].classification = "alert"
    /\ callers[c].seen = callers[d].seen
    /\ callers[d].at - callers[c].at <= 1
    /\ callers[c].result /\ ~callers[d].result

====
